---- MODULE Spec2Model ----
(***************************************************************************)
(* TxVoc backend (backend/main.py): the voice registry, the synthesis job *)
(* table and the two storage directories, driven by the handlers of one   *)
(* asyncio event loop.  A handler runs without interruption up to an       *)
(* `await`; the only `await` in a state-changing handler is the read of    *)
(* the upload body in upload_voice, so that handler is two steps and every *)
(* other handler is one.  The arrival of a DELETE is a step of its own, so *)
(* that several deletions of one voice can be in flight at once; for the   *)
(* other routes arrival and the handler's first step are one step.         *)
(*                                                                         *)
(* Each handler is an operator from the program's state, the request and   *)
(* the outcome of its file operations to the response and the new state;   *)
(* the actions apply the handlers.  The responses sent are not kept in the *)
(* state, except for the two histories `deleted` and `returned`.           *)
(*                                                                         *)
(* Conventions: a request text is modelled by its length; speed and pitch  *)
(* are in tenths (0.5 is 5); durations are in tenths of a second; a        *)
(* filename is a sequence of one-character strings; Python's None is <<>>  *)
(* for a path and "" for a content type (both are falsy in the code).      *)
(***************************************************************************)
EXTENDS Integers, Sequences, FiniteSets, TLC

VARIABLES
    voices_db,        \* main.py:97   voice id -> Voice
    synthesis_cache,  \* main.py:98   job id -> SynthesisResponse
    voices_dir,       \* main.py:102  file name -> file, under storage/voices
    audio_dir,        \* main.py:103  file name -> file, under storage/audio
    nextUuid,         \* number of the next value uuid.uuid4() returns
    pending,          \* DELETE requests awaiting their handler: id -> how many
    reading,          \* the uploads suspended at `await file.read()`
    deleted,          \* history: the voices for which DELETE returned 200
    returned,         \* history: the jobs POST /synthesize returned with 201
    voice_at_record   \* history: job id -> whether its voice_id was a key of
                      \* voices_db at the instant the job was recorded

vars == <<voices_db, synthesis_cache, voices_dir, audio_dir, nextUuid, pending,
          reading, deleted, returned, voice_at_record>>

\* the program's state, as the handlers below take and return it
St == [voices_db |-> voices_db, synthesis_cache |-> synthesis_cache,
       voices_dir |-> voices_dir, audio_dir |-> audio_dir, nextUuid |-> nextUuid]

\* ---------------------------------------------------------------- bounds

MaxUuid == 2
MaxInFlight == 2

\* ------------------------------------------------------------- constants

VOICES_DIR == "storage/voices"
AUDIO_DIR == "storage/audio"

None == <<>>

DefaultSampleRate == 22050
PlaceholderDuration == 100
MinTextLen == 1
MaxTextLen == 5000
MinRate == 5
MaxRate == 20

HTTP_200 == 200
HTTP_201 == 201
HTTP_400 == 400
HTTP_404 == 404
HTTP_422 == 422
HTTP_500 == 500

\* readings of datetime.now().isoformat()
Now == {"2026-01-01T00:00:00"}

\* ----------------------------------------------------------------- uuid

Uuid(n) == "uuid-" \o ToString(n)

\* uuid4 as a generator that repeats itself
uuid4_repeats(s) == Uuid(1)

\* uuid.uuid4() in state s: a value never returned before
uuid4(s) == Uuid(s.nextUuid)

\* ------------------------------------------------------------- filenames

RECURSIVE Join(_)
Join(s) == IF s = <<>> THEN "" ELSE Head(s) \o Join(Tail(s))

Lower(ch) ==
    CASE ch = "W" -> "w"
      [] ch = "A" -> "a"
      [] ch = "V" -> "v"
      [] ch = "M" -> "m"
      [] ch = "P" -> "p"
      [] OTHER -> ch

\* str.rfind: the last position of ch in s, 0 when absent (1-based)
RFind(s, ch) ==
    LET hits == {i \in 1..Len(s) : s[i] = ch}
    IN  IF hits = {} THEN 0 ELSE CHOOSE i \in hits : \A j \in hits : j <= i

\* pathlib.PurePath.suffix of a one-component path
Suffix(name) ==
    LET i == RFind(name, ".")
    IN  IF 1 < i /\ i < Len(name) THEN SubSeq(name, i, Len(name)) ELSE <<>>

DefaultFilename == <<"a", "u", "d", "i", "o", ".", "w", "a", "v">>

\* main.py:223-226
FileExtension(filename) ==
    LET original_filename == IF filename = <<>> THEN DefaultFilename ELSE filename
        file_extension == [i \in 1..Len(Suffix(original_filename)) |->
                              Lower(Suffix(original_filename)[i])]
    IN  IF file_extension = <<>> THEN ".wav" ELSE Join(file_extension)

\* main.py:229
VoiceFilePath(voice_id, file_extension) == <<VOICES_DIR, voice_id \o file_extension>>

\* ------------------------------------------------------------ validation

valid_types == {"audio/wav", "audio/mpeg", "audio/mp3", "audio/ogg", "audio/flac"}

\* main.py:121-127
validate_audio_file(file) ==
    IF file.content_type = "" THEN FALSE ELSE file.content_type \in valid_types

\* SynthesisRequest without max_length on text
ValidSynthesisRequest_no_max_length(request) ==
    /\ request.text >= MinTextLen
    /\ request.speed >= MinRate /\ request.speed <= MaxRate
    /\ request.pitch >= MinRate /\ request.pitch <= MaxRate

\* main.py:73-78, enforced by the framework before the handler is called
ValidSynthesisRequest(request) ==
    /\ request.text >= MinTextLen /\ request.text <= MaxTextLen
    /\ request.speed >= MinRate /\ request.speed <= MaxRate
    /\ request.pitch >= MinRate /\ request.pitch <= MaxRate

\* str(path) and Path(string): a path keeps its (directory, name) form
str(path) == path
Path(string) == string

\* main.py:112-119
get_audio_duration(file_path) == PlaceholderDuration

\* main.py:135
OutputFile(synthesis_id) == <<AUDIO_DIR, "synthesis_" \o synthesis_id \o ".txt">>

\* main.py:137-149: what the placeholder file holds
Content(request) ==
    [text |-> request.text, voice |-> request.voice_id,
     speed |-> request.speed, pitch |-> request.pitch]

\* the URL built from the whole path instead of the file's name
AudioUrl_whole_path(audio_file) == <<"/audio", audio_file[1] \o "/" \o audio_file[2]>>

\* main.py:322
AudioUrl(audio_file) == <<"/audio", audio_file[2]>>

\* main.py:323, in tenths of a second: len(text) * 0.1 s
EstimateDuration(text) == text

\* ---------------------------------------------------------------- inputs

ContentTypes == {"", "audio/wav", "text/plain"}

Filenames == { <<>>,
               <<"b", ".", "M", "P", "3">>,
               <<"n", "o", "e", "x", "t">> }

\* every filename with an accepted type, every type with one filename
UploadFiles ==
    [content_type : {"audio/wav"}, filename : Filenames]
        \cup [content_type : ContentTypes, filename : {<<"n", "o", "e", "x", "t">>}]

\* (text length, speed, pitch): at the limits, and one step outside each
ValidShapes == { <<1, 5, 20>>, <<5000, 20, 5>> }

InvalidShapes == { <<0, 10, 10>>, <<5001, 10, 10>>,
                   <<5, 4, 10>>, <<5, 21, 10>>,
                   <<5, 10, 4>>, <<5, 10, 21>> }

\* the ids a client can name: one that never exists, and every id a response
\* has shown it (the seeded voice is among them)
IdInputs == {"unknown-id"} \cup DOMAIN voices_db \cup {d.id : d \in deleted}

SynthesisRequest(shape, voice_id) ==
    [text |-> shape[1], voice_id |-> voice_id, speed |-> shape[2], pitch |-> shape[3]]

\* an invalid request names the seeded voice or the id that never exists
SynthesisRequests ==
    {SynthesisRequest(shape, v) : shape \in ValidShapes, v \in IdInputs}
        \cup {SynthesisRequest(shape, v) :
                 shape \in InvalidShapes, v \in {"default", "unknown-id"}}

\* ------------------------------------------------------------------ files

EmptyOpenFile == [data |-> "partial", open |-> TRUE]

Exists(dir, name) == name \in DOMAIN dir

Put(dir, name, f) == [n \in DOMAIN dir \cup {name} |-> IF n = name THEN f ELSE dir[n]]

Remove(dir, name) == [n \in DOMAIN dir \ {name} |-> dir[n]]

FullyWritten(f) == ~f.open /\ f.data # "partial"

\* ---------------------------------------------------------- read handlers

HTTPException(status_code, detail) ==
    [status |-> status_code, body |-> [error |-> detail]]

\* main.py:186-190
get_voices(s) ==
    [status |-> HTTP_200, body |-> {s.voices_db[v] : v \in DOMAIN s.voices_db}]

\* main.py:192-201
get_voice(s, voice_id) ==
    IF voice_id \notin DOMAIN s.voices_db
    THEN HTTPException(HTTP_404, <<"Voice not found", voice_id>>)
    ELSE [status |-> HTTP_200, body |-> s.voices_db[voice_id]]

\* main.py:344-353
get_synthesis(s, synthesis_id) ==
    IF synthesis_id \notin DOMAIN s.synthesis_cache
    THEN HTTPException(HTTP_404, <<"Synthesis not found", synthesis_id>>)
    ELSE [status |-> HTTP_200, body |-> s.synthesis_cache[synthesis_id]]

\* main.py:362-391; the body is the file AUDIO_DIR / filename
serve_audio(s, filename) ==
    IF ~Exists(s.audio_dir, filename)
    THEN HTTPException(HTTP_404, <<"Audio file not found">>)
    ELSE [status |-> HTTP_200, body |-> s.audio_dir[filename]]

\* the route /audio/{filename} applied to a URL path
AudioRoute(url) == IF url[1] = "/audio" THEN url[2] ELSE ""

\* --------------------------------------------------------- write handlers

Result(response, s) == [response |-> response, state |-> s]

\* upload_voice storing the record before the body is read and written
upload_voice_registers_early(s, file, io) ==
    IF ~validate_audio_file(file)
    THEN [response |-> HTTPException(HTTP_400, <<"Invalid audio file">>),
          state |-> s, frame |-> None]
    ELSE LET voice_id == uuid4(s)
             file_extension == FileExtension(file.filename)
             voice_file_path == VoiceFilePath(voice_id, file_extension)
             s1 == [s EXCEPT !.nextUuid = @ + 1]
             voice == [id |-> voice_id, name |-> "Custom Voice",
                       description |-> "", language |-> "en",
                       created_at |-> CHOOSE t \in Now : TRUE,
                       file_path |-> str(voice_file_path),
                       duration |-> get_audio_duration(voice_file_path),
                       sample_rate |-> DefaultSampleRate]
         IN  IF io = "open_raises"
             THEN [response |-> HTTPException(HTTP_500, <<"Failed to upload voice">>),
                   state |-> s1, frame |-> None]
             ELSE [response |-> None,
                   state |-> [s1 EXCEPT !.voices_dir =
                                            Put(@, voice_file_path[2], EmptyOpenFile),
                                        !.voices_db = Put(@, voice_id, voice)],
                   frame |-> [file |-> file, voice_id |-> voice_id,
                              voice_file_path |-> voice_file_path]]

\* main.py:211-232: upload_voice up to `await file.read()`; frame is the
\* suspended coroutine, None when the handler has answered
upload_voice(s, file, io) ==
    IF ~validate_audio_file(file)
    THEN [response |-> HTTPException(HTTP_400, <<"Invalid audio file">>),
          state |-> s, frame |-> None]
    ELSE LET voice_id == uuid4(s)
             file_extension == FileExtension(file.filename)
             voice_file_path == VoiceFilePath(voice_id, file_extension)
             s1 == [s EXCEPT !.nextUuid = @ + 1]
         IN  IF io = "open_raises"
             THEN [response |-> HTTPException(HTTP_500, <<"Failed to upload voice">>),
                   state |-> s1, frame |-> None]
             ELSE [response |-> None,
                   state |-> [s1 EXCEPT !.voices_dir =
                                 Put(@, voice_file_path[2], EmptyOpenFile)],
                   frame |-> [file |-> file, voice_id |-> voice_id,
                              voice_file_path |-> voice_file_path]]

\* upload_voice storing the record before the file is written
upload_voice_resume_registers_first(s, frame, io, now) ==
    LET fname == frame.voice_file_path[2]
        voice == [id |-> frame.voice_id, name |-> "Custom Voice",
                  description |-> "", language |-> "en",
                  created_at |-> now,
                  file_path |-> str(frame.voice_file_path),
                  duration |-> get_audio_duration(frame.voice_file_path),
                  sample_rate |-> DefaultSampleRate]
        s1 == [s EXCEPT !.voices_db = Put(@, frame.voice_id, voice)]
    IN  IF io \in {"read_raises", "write_raises"}
        THEN Result(HTTPException(HTTP_500, <<"Failed to upload voice">>),
                    [s1 EXCEPT !.voices_dir =
                        Put(@, fname, [data |-> "partial", open |-> FALSE])])
        ELSE Result([status |-> HTTP_201, body |-> voice],
                    [s1 EXCEPT !.voices_dir =
                        Put(@, fname, [data |-> "content", open |-> FALSE])])

\* main.py:232-263: upload_voice from the return of `await file.read()`
upload_voice_resume(s, frame, io, now) ==
    LET fname == frame.voice_file_path[2] IN
    IF io \in {"read_raises", "write_raises"}
    THEN \* the with block closes the file with none or a part of the body in it
         Result(HTTPException(HTTP_500, <<"Failed to upload voice">>),
                [s EXCEPT !.voices_dir =
                    Put(@, fname, [data |-> "partial", open |-> FALSE])])
    ELSE LET voice == [id |-> frame.voice_id, name |-> "Custom Voice",
                       description |-> "", language |-> "en",
                       created_at |-> now,
                       file_path |-> str(frame.voice_file_path),
                       duration |-> get_audio_duration(frame.voice_file_path),
                       sample_rate |-> DefaultSampleRate]
         IN  Result([status |-> HTTP_201, body |-> voice],
                    [s EXCEPT !.voices_dir =
                                  Put(@, fname, [data |-> "content", open |-> FALSE]),
                              !.voices_db = Put(@, frame.voice_id, voice)])

\* delete_voice without the unlink
delete_voice_keeps_file(s, voice_id, io) ==
    IF voice_id \notin DOMAIN s.voices_db
    THEN Result(HTTPException(HTTP_404, <<"Voice not found", voice_id>>), s)
    ELSE Result([status |-> HTTP_200,
                 body |-> [message |-> <<"Voice deleted", s.voices_db[voice_id].name>>]],
                [s EXCEPT !.voices_db = Remove(@, voice_id)])

\* delete_voice removing the record before it unlinks the file
delete_voice_record_first(s, voice_id, io) ==
    IF voice_id \notin DOMAIN s.voices_db
    THEN Result(HTTPException(HTTP_404, <<"Voice not found", voice_id>>), s)
    ELSE LET voice == s.voices_db[voice_id]
             unlinks == /\ voice.file_path # None
                        /\ Exists(s.voices_dir, Path(voice.file_path)[2])
             s1 == [s EXCEPT !.voices_db = Remove(@, voice_id)]
         IN  IF unlinks /\ io = "unlink_raises"
             THEN Result(HTTPException(HTTP_500, <<"Failed to delete voice">>), s1)
             ELSE Result([status |-> HTTP_200,
                          body |-> [message |-> <<"Voice deleted", voice.name>>]],
                         [s1 EXCEPT !.voices_dir =
                                        IF unlinks
                                        THEN Remove(@, Path(voice.file_path)[2])
                                        ELSE @])

\* main.py:265-295
delete_voice(s, voice_id, io) ==
    IF voice_id \notin DOMAIN s.voices_db
    THEN Result(HTTPException(HTTP_404, <<"Voice not found", voice_id>>), s)
    ELSE LET voice == s.voices_db[voice_id]
             unlinks == /\ voice.file_path # None
                        /\ Exists(s.voices_dir, Path(voice.file_path)[2])
         IN  IF unlinks /\ io = "unlink_raises"
             THEN Result(HTTPException(HTTP_500, <<"Failed to delete voice">>), s)
             ELSE Result([status |-> HTTP_200,
                          body |-> [message |-> <<"Voice deleted", voice.name>>]],
                         [s EXCEPT !.voices_dir =
                                       IF unlinks
                                       THEN Remove(@, Path(voice.file_path)[2])
                                       ELSE @,
                                   !.voices_db = Remove(@, voice_id)])

\* main.py:129-154: the file written, None when open() raises
generate_synthesis_audio(s, request, io) ==
    LET synthesis_id == uuid4(s)
        output_file == OutputFile(synthesis_id)
        s1 == [s EXCEPT !.nextUuid = @ + 1]
    IN  CASE io = "open_raises" -> [raised |-> TRUE, state |-> s1, path |-> None]
          [] io = "write_raises" ->
                [raised |-> TRUE, path |-> None,
                 state |-> [s1 EXCEPT !.audio_dir =
                               Put(@, output_file[2],
                                   [data |-> "partial", open |-> FALSE])]]
          [] OTHER ->
                [raised |-> FALSE, path |-> output_file,
                 state |-> [s1 EXCEPT !.audio_dir =
                               Put(@, output_file[2],
                                   [data |-> Content(request), open |-> FALSE])]]

\* main.py:320-327
SynthesisResponse(synthesis_id, audio_file, request, now) ==
    [id |-> synthesis_id,
     audio_url |-> AudioUrl(audio_file),
     duration |-> EstimateDuration(request.text),
     voice_id |-> request.voice_id,
     text |-> request.text,
     created_at |-> now]

\* synthesize_speech without the check of the voice
synthesize_speech_unchecked(s, request, io, now) ==
    LET g == generate_synthesis_audio(s, request, io) IN
    IF g.raised
    THEN Result(HTTPException(HTTP_500, <<"Failed to synthesize speech">>), g.state)
    ELSE LET synthesis_id == uuid4(g.state)
             synthesis_response == SynthesisResponse(synthesis_id, g.path, request, now)
         IN  Result([status |-> HTTP_201, body |-> synthesis_response],
                    [g.state EXCEPT !.nextUuid = @ + 1,
                                    !.synthesis_cache =
                                        Put(@, synthesis_id, synthesis_response)])

\* synthesize_speech checking the voice after it generated the audio
synthesize_speech_checks_late(s, request, io, now) ==
    LET g == generate_synthesis_audio(s, request, io) IN
    IF g.raised
    THEN Result(HTTPException(HTTP_500, <<"Failed to synthesize speech">>), g.state)
    ELSE IF request.voice_id \notin DOMAIN s.voices_db
    THEN Result(HTTPException(HTTP_404, <<"Voice not found", request.voice_id>>),
                g.state)
    ELSE LET synthesis_id == uuid4(g.state)
             synthesis_response == SynthesisResponse(synthesis_id, g.path, request, now)
         IN  Result([status |-> HTTP_201, body |-> synthesis_response],
                    [g.state EXCEPT !.nextUuid = @ + 1,
                                    !.synthesis_cache =
                                        Put(@, synthesis_id, synthesis_response)])

\* main.py:299-342
synthesize_speech(s, request, io, now) ==
    IF request.voice_id \notin DOMAIN s.voices_db
    THEN Result(HTTPException(HTTP_404, <<"Voice not found", request.voice_id>>), s)
    ELSE LET g == generate_synthesis_audio(s, request, io) IN
         IF g.raised
         THEN Result(HTTPException(HTTP_500, <<"Failed to synthesize speech">>), g.state)
         ELSE LET synthesis_id == uuid4(g.state)
                  synthesis_response ==
                      SynthesisResponse(synthesis_id, g.path, request, now)
              IN  Result([status |-> HTTP_201, body |-> synthesis_response],
                         [g.state EXCEPT !.nextUuid = @ + 1,
                                         !.synthesis_cache =
                                             Put(@, synthesis_id, synthesis_response)])

\* POST /synthesize, main.py:299-300: the framework validates the body against
\* SynthesisRequest and calls the handler only when it is valid
post_synthesize(s, request, io, now) ==
    IF ~ValidSynthesisRequest(request)
    THEN Result(HTTPException(HTTP_422, <<"validation error">>), s)
    ELSE synthesize_speech(s, request, io, now)

\* ------------------------------------------------------------------- init

\* main.py:404-420, startup_event, with the storage directories empty
Init ==
    /\ \E t \in Now :
         voices_db = [v \in {"default"} |->
                        [id |-> "default", name |-> "Default Voice",
                         description |-> "Built-in default voice for testing",
                         language |-> "en", created_at |-> t, file_path |-> None,
                         duration |-> None, sample_rate |-> DefaultSampleRate]]
    /\ synthesis_cache = <<>>
    /\ voices_dir = <<>>
    /\ audio_dir = <<>>
    /\ nextUuid = 1
    /\ pending = <<>>
    /\ reading = {}
    /\ deleted = {}
    /\ returned = {}
    /\ voice_at_record = <<>>

\* ---------------------------------------------------------------- actions

RECURSIVE Sum(_, _)
Sum(f, ids) ==
    IF ids = {} THEN 0
    ELSE LET i == CHOOSE i \in ids : TRUE IN f[i] + Sum(f, ids \ {i})

\* the requests in flight
InFlight == Cardinality(reading) + Sum(pending, DOMAIN pending)

Apply(s) ==
    /\ voices_db' = s.voices_db
    /\ synthesis_cache' = s.synthesis_cache
    /\ voices_dir' = s.voices_dir
    /\ audio_dir' = s.audio_dir
    /\ nextUuid' = s.nextUuid

\* POST /voices: the handler runs to its answer or to the await
Upload(file, io) ==
    /\ InFlight < MaxInFlight
    /\ validate_audio_file(file) => nextUuid <= MaxUuid
    /\ LET r == upload_voice(St, file, io) IN
       /\ Apply(r.state)
       /\ reading' = IF r.frame = None THEN reading ELSE reading \cup {r.frame}
    /\ UNCHANGED <<pending, deleted, returned, voice_at_record>>

\* the body has been read: the suspended upload runs to its answer
ResumeUpload(frame, io, now) ==
    /\ frame \in reading
    /\ Apply(upload_voice_resume(St, frame, io, now).state)
    /\ reading' = reading \ {frame}
    /\ UNCHANGED <<pending, deleted, returned, voice_at_record>>

\* a DELETE /voices/{voice_id} request arrives and its handler is scheduled
ReceiveDelete(voice_id) ==
    /\ InFlight < MaxInFlight
    /\ pending' = Put(pending, voice_id,
                      IF voice_id \in DOMAIN pending THEN pending[voice_id] + 1 ELSE 1)
    /\ UNCHANGED <<voices_db, synthesis_cache, voices_dir, audio_dir, nextUuid,
                   reading, deleted, returned, voice_at_record>>

\* DELETE /voices/{voice_id}: the scheduled handler runs
Delete(voice_id, io) ==
    /\ voice_id \in DOMAIN pending
    /\ pending' = IF pending[voice_id] = 1 THEN Remove(pending, voice_id)
                  ELSE [pending EXCEPT ![voice_id] = @ - 1]
    /\ LET r == delete_voice(St, voice_id, io) IN
       /\ Apply(r.state)
       /\ deleted' = IF r.response.status = HTTP_200
                     THEN deleted \cup {voices_db[voice_id]} ELSE deleted
    /\ UNCHANGED <<reading, returned, voice_at_record>>

\* POST /synthesize
Synthesize(request, io, now) ==
    /\ InFlight < MaxInFlight
    /\ (ValidSynthesisRequest(request) /\ request.voice_id \in DOMAIN voices_db)
          => nextUuid + 1 <= MaxUuid
    /\ LET r == post_synthesize(St, request, io, now) IN
       /\ Apply(r.state)
       /\ returned' = IF r.response.status = HTTP_201
                      THEN returned \cup {r.response.body} ELSE returned
       /\ voice_at_record' =
             [j \in DOMAIN r.state.synthesis_cache |->
                 IF j \in DOMAIN voice_at_record THEN voice_at_record[j]
                 ELSE r.state.synthesis_cache[j].voice_id \in DOMAIN voices_db]
    /\ UNCHANGED <<pending, reading, deleted>>

\* the outcomes the file operations of a handler can have for a request
UploadIo(file) ==
    IF validate_audio_file(file) THEN {"ok", "open_raises"} ELSE {"ok"}

DeleteIo(voice_id) ==
    IF voice_id \in DOMAIN voices_db /\ voices_db[voice_id].file_path # None
    THEN {"ok", "unlink_raises"} ELSE {"ok"}

SynthesizeIo(request) ==
    IF ValidSynthesisRequest(request) /\ request.voice_id \in DOMAIN voices_db
    THEN {"ok", "open_raises", "write_raises"} ELSE {"ok"}

Next ==
    \/ \E file \in UploadFiles : \E io \in UploadIo(file) : Upload(file, io)
    \/ \E frame \in reading, io \in {"ok", "read_raises", "write_raises"}, now \in Now :
          ResumeUpload(frame, io, now)
    \/ \E voice_id \in IdInputs : ReceiveDelete(voice_id)
    \/ \E voice_id \in DOMAIN pending : \E io \in DeleteIo(voice_id) :
          Delete(voice_id, io)
    \/ \E request \in SynthesisRequests, now \in Now :
          \E io \in SynthesizeIo(request) : Synthesize(request, io, now)

Spec == Init /\ [][Next]_vars

\* ----------------------------------------------------------------- claims

\* every id a request can carry in the current state
AnyIds == IdInputs \cup {f.voice_id : f \in reading} \cup DOMAIN synthesis_cache

\* the outcomes of the file operations of each handler
UploadIos == {"ok", "open_raises"}
ResumeIos == {"ok", "read_raises", "write_raises"}
DeleteIos == {"ok", "unlink_raises"}
SynthesizeIos == {"ok", "open_raises", "write_raises"}

FileName(voice) == Path(voice.file_path)[2]

HasFile(s, voice) == voice.file_path # None /\ Exists(s.voices_dir, FileName(voice))

Listed(s, voice_id) == \E x \in get_voices(s).body : x.id = voice_id

\* voice_id is gone from state s, and a Delete of it is answered 404 and
\* changes nothing
Gone(s, voice) ==
    /\ ~Listed(s, voice.id)
    /\ get_voice(s, voice.id).status = HTTP_404
    /\ voice.file_path # None => ~Exists(s.voices_dir, FileName(voice))
    /\ \A io \in DeleteIos : \A r \in {delete_voice(s, voice.id, io)} :
          r.response.status = HTTP_404 /\ r.state = s

\* C1: a Delete(id) that returns 200 leaves a state in which List omits id,
\* Get(id) is 404, the voice's file is gone and another Delete(id) is 404 and
\* changes nothing; and all of that still holds of every voice deleted
\* earlier, whatever ran since.
C1_DeleteRemoves ==
    /\ \A v \in DOMAIN voices_db : \A io \in DeleteIos :
         \A r \in {delete_voice(St, v, io)} :
            r.response.status = HTTP_200 => Gone(r.state, voices_db[v])
    /\ \A d \in deleted : Gone(St, d)

\* a voice that had a file was deleted with another upload suspended, which
\* has completed since
C1_Witness ==
    \E d \in deleted : \E v \in DOMAIN voices_db :
        /\ d.file_path # None
        /\ voices_db[v].file_path # None
        /\ reading = {}

ExpectedExtension(filename) ==
    CASE filename = <<"b", ".", "M", "P", "3">> -> ".mp3"
      [] filename = <<"n", "o", "e", "x", "t">> -> ".wav"
      [] filename = <<>> -> ".wav"

\* C3: an upload with an accepted content type whose file operations succeed
\* takes an id that is no key of the registry and no id of another upload in
\* progress, and answers 201 with a voice stored under that id beside the
\* records there before, with sample_rate 22050 and file_path
\* <voices dir>/<id><ext>, a file existing at that path.
C3_UploadRegisters ==
    /\ \A file \in UploadFiles :
         validate_audio_file(file) =>
           \A b \in {upload_voice(St, file, "ok")} :
               /\ b.frame # None
               /\ b.frame.voice_id \notin DOMAIN voices_db
               /\ b.frame.voice_id \notin {f.voice_id : f \in reading}
               /\ b.frame.voice_file_path =
                     <<VOICES_DIR, b.frame.voice_id \o ExpectedExtension(file.filename)>>
    /\ \A frame \in reading : \A now \in Now :
         \A r \in {upload_voice_resume(St, frame, "ok", now)} :
           \A voice \in {r.response.body} :
             /\ r.response.status = HTTP_201
             /\ voice.id \notin DOMAIN voices_db
             /\ DOMAIN r.state.voices_db = DOMAIN voices_db \cup {voice.id}
             /\ \A v \in DOMAIN voices_db : r.state.voices_db[v] = voices_db[v]
             /\ r.state.voices_db[voice.id] = voice
             /\ voice.sample_rate = 22050
             /\ voice.file_path =
                   <<VOICES_DIR, voice.id \o ExpectedExtension(frame.file.filename)>>
             /\ Exists(r.state.voices_dir, FileName(voice))

\* two uploads have been answered 201, one of a file named b.MP3
C3_Witness ==
    \E v, w \in DOMAIN voices_db :
        /\ v # w
        /\ voices_db[v].file_path = <<VOICES_DIR, v \o ".mp3">>
        /\ voices_db[w].file_path = <<VOICES_DIR, w \o ".wav">>

\* C4: the handler of Synthesize, given a voice_id that is no key of the
\* registry, answers 404 and changes nothing: no job, no file.
C4_UnknownVoice ==
    \A shape \in ValidShapes : \A v \in AnyIds \ DOMAIN voices_db :
      \A io \in SynthesizeIos : \A now \in Now :
        \A r \in {post_synthesize(St, SynthesisRequest(shape, v), io, now)} :
            /\ r.response.status = HTTP_404
            /\ r.state.synthesis_cache = synthesis_cache
            /\ r.state.audio_dir = audio_dir
            /\ r.state = St

\* a job and its file are there and the seeded voice is unknown by now
C4_Witness ==
    /\ synthesis_cache # <<>>
    /\ audio_dir # <<>>
    /\ "default" \notin DOMAIN voices_db

\* C5: an upload answered 400 or 500 leaves the voice table as it was (and
\* so does an upload that is suspended); a synthesis answered 404 or 500
\* leaves the job table as it was.
C5_NoPartialRecord ==
    /\ \A file \in UploadFiles : \A io \in UploadIos :
         \A b \in {upload_voice(St, file, io)} :
             /\ b.state.voices_db = voices_db
             /\ b.frame = None => b.response.status \in {HTTP_400, HTTP_500}
    /\ \A frame \in reading : \A io \in ResumeIos : \A now \in Now :
         \A r \in {upload_voice_resume(St, frame, io, now)} :
             r.response.status \in {HTTP_400, HTTP_500} =>
                r.state.voices_db = voices_db
    /\ \A shape \in ValidShapes : \A v \in AnyIds :
         \A io \in SynthesizeIos : \A now \in Now :
           \A r \in {post_synthesize(St, SynthesisRequest(shape, v), io, now)} :
             r.response.status \in {HTTP_404, HTTP_500} =>
                r.state.synthesis_cache = synthesis_cache

\* an upload and a synthesis were answered 500 after their files were created
C5_Witness ==
    /\ reading = {}
    /\ \E f \in DOMAIN voices_dir : ~FullyWritten(voices_dir[f])
    /\ \E f \in DOMAIN audio_dir : ~FullyWritten(audio_dir[f])

\* C6: a Synthesize request with text of length 0 or above 5000, or speed or
\* pitch outside [0.5, 2.0], is answered 422 and nothing changes, whether or
\* not its voice_id is registered.
C6_ValidationFirst ==
    \A shape \in InvalidShapes : \A v \in AnyIds :
      \A io \in SynthesizeIos : \A now \in Now :
        \A r \in {post_synthesize(St, SynthesisRequest(shape, v), io, now)} :
            r.response.status = HTTP_422 /\ r.state = St

\* the seeded voice is registered, a job is there and a Delete is in flight
C6_Witness ==
    /\ "default" \in DOMAIN voices_db
    /\ synthesis_cache # <<>>
    /\ pending # <<>>

\* C7: every job in the job table was recorded with a voice_id that was a key
\* of the registry at that instant, and no Delete changes the job table.
C7_JobVoiceExisted ==
    /\ DOMAIN voice_at_record = DOMAIN synthesis_cache
    /\ \A j \in DOMAIN synthesis_cache : voice_at_record[j]
    /\ \A v \in AnyIds : \A io \in DeleteIos :
         delete_voice(St, v, io).state.synthesis_cache = synthesis_cache

\* the voice of a job has been deleted with another Delete of it in flight
C7_Witness ==
    \E j \in DOMAIN synthesis_cache :
        /\ synthesis_cache[j].voice_id \notin DOMAIN voices_db
        /\ synthesis_cache[j].voice_id \in DOMAIN pending

Owners(f) == {v \in DOMAIN voices_db : voices_db[v].file_path = <<VOICES_DIR, f>>}

Namers(f) == {j \in DOMAIN synthesis_cache : synthesis_cache[j].audio_url = <<"/audio", f>>}

\* C8, as stated: with no request in flight, every file under the voices
\* directory is the file_path of exactly one voice and every file under the
\* audio directory is named by the audio_url of exactly one job.
C8_NoOrphanFiles ==
    InFlight = 0 =>
        /\ \A f \in DOMAIN voices_dir : Cardinality(Owners(f)) = 1
        /\ \A f \in DOMAIN audio_dir : Cardinality(Namers(f)) = 1

TwoDeletes(v) == v \in DOMAIN pending /\ pending[v] >= 2 /\ v \in DOMAIN voices_db

\* C9, as stated: of two Deletes of one registered voice in flight together,
\* whichever runs first, one is answered 200 and the other 404, none 500, and
\* record and file are gone afterwards.
C9_ExactlyOneSucceeds ==
    \A v \in DOMAIN pending :
      TwoDeletes(v) =>
        \A io1, io2 \in DeleteIos :
          \A r1 \in {delete_voice(St, v, io1)} :
            \A r2 \in {delete_voice(r1.state, v, io2)} :
              /\ r1.response.status = HTTP_200
              /\ r2.response.status = HTTP_404
              /\ v \notin DOMAIN r2.state.voices_db
              /\ ~HasFile(r2.state, voices_db[v])

\* C9, amended: a Delete whose unlink raises is answered 500 and leaves
\* record and file in place; otherwise the first of the two to run is
\* answered 200 and removes record and file, and the one after it is answered
\* 404 and changes nothing.
C9_OneSucceedsUnlessUnlinkRaises ==
    \A v \in DOMAIN pending :
      TwoDeletes(v) =>
        \A io1, io2 \in DeleteIos :
          \A r1 \in {delete_voice(St, v, io1)} :
            \A r2 \in {delete_voice(r1.state, v, io2)} :
              LET voice == voices_db[v]
                  raises1 == HasFile(St, voice) /\ io1 = "unlink_raises"
                  raises2 == HasFile(St, voice) /\ io2 = "unlink_raises"
              IN  /\ raises1 => r1.response.status = HTTP_500 /\ r1.state = St
                  /\ raises1 /\ raises2 =>
                        r2.response.status = HTTP_500 /\ r2.state = St
                  /\ raises1 /\ ~raises2 => r2.response.status = HTTP_200
                  /\ ~raises1 =>
                       /\ r1.response.status = HTTP_200
                       /\ v \notin DOMAIN r1.state.voices_db
                       /\ ~HasFile(r1.state, voice)
                       /\ r2.response.status = HTTP_404
                       /\ r2.state = r1.state

\* one of two Deletes of an uploaded voice was answered 200, the other is
\* still in flight
C9_Witness == \E d \in deleted : d.file_path # None /\ d.id \in DOMAIN pending

\* C10: every registered voice with a file_path has a written and closed file
\* there, no two registered voices share a file_path, and the voice of an
\* upload that is suspended is not registered.
C10_RegisteredFilesWritten ==
    /\ \A v \in DOMAIN voices_db :
         voices_db[v].file_path # None =>
            /\ voices_db[v].file_path[1] = VOICES_DIR
            /\ Exists(voices_dir, FileName(voices_db[v]))
            /\ FullyWritten(voices_dir[FileName(voices_db[v])])
    /\ \A v, w \in DOMAIN voices_db :
         (v # w /\ voices_db[v].file_path # None) =>
            voices_db[v].file_path # voices_db[w].file_path
    /\ \A frame \in reading :
         /\ frame.voice_id \notin DOMAIN voices_db
         /\ ~Listed(St, frame.voice_id)
         /\ get_voice(St, frame.voice_id).status = HTTP_404

\* an upload is suspended while an uploaded voice is registered
C10_Witness ==
    /\ reading # {}
    /\ \E v \in DOMAIN voices_db : voices_db[v].file_path # None

====
